---- MODULE Spec2Model ----
(***************************************************************************)
(* Verification model of the metisos_agentV1 example scripts.              *)
(*                                                                         *)
(* The repository is a flat set of independent scripts.  One behaviour of  *)
(* this model is one run of one script: Init picks the script, and every   *)
(* action is guarded by the script it belongs to.                          *)
(*                                                                         *)
(* Python values: a str is a sequence of one-character strings, None is    *)
(* the one-element sequence <<"None">> (no str equals it, since every      *)
(* element of a str has length one).  The external metis_agent library is  *)
(* an opaque collaborator: each call into it either returns or raises an   *)
(* Exception (errors that are not subclasses of Exception, such as         *)
(* KeyboardInterrupt, end the process and are not modelled).               *)
(***************************************************************************)
EXTENDS Integers, Sequences, FiniteSets, TLC

VARIABLES
    script,          \* which script this run executes
    \* ---- examples/cli_app.py : MetisAgentCLI ----
    cli_pc,          \* position in interactive_mode
    cli_agent,       \* self.agent
    cli_session_id,  \* self.session_id
    next_tool,       \* local next_tool of interactive_mode
    llm_provider,    \* self.llm_provider
    llm_model,       \* self.llm_model
    cli_inputs,      \* history: lines returned by input()
    cli_calls,       \* history: calls of self.agent.process_query
    \* ---- examples/web_server.py ----
    ws_mode,         \* "script": run through main(); "imported": app served by a host
    ws_pc,           \* position in main
    ws_agent,        \* module global agent
    ws_log,          \* history: one entry per handled POST /api/query
    \* ---- process environment (os.environ after load_dotenv) ----
    env,
    \* ---- templates/web_app_template.py ----
    app_mode,        \* "script": run through main(); "imported": app served by a host
    app_pc,          \* position in main
    app_agent,       \* module global agent
    app_init_result, \* what initialize_agent returned to main
    app_uses,        \* history: uses of the global agent made by main
    app_cookie,      \* the client's Flask session: its 'session_id' entry or None
    app_log,         \* history: one entry per handled /api/chat or /api/clear-session
    \* ---- templates/advanced_integration_template.py : AgentOrchestrator ----
    orch_created,    \* self.agents has been filled by create_specialized_agents
    orch_pc,         \* position in execute_workflow
    orch_type,       \* workflow_type of the running workflow
    orch_idx,        \* which agent of the workflow is next
    orch_events,     \* history: call / ret / raise events of the running workflow
    workflow_history, \* self.workflow_history
    \* ---- examples/component_usage.py : demonstrate_memory_components ----
    mem_pc,          \* position in demonstrate_memory_components
    mem_idx,         \* which of the sqlite_memory calls is next
    mem_cwd,         \* os.getcwd()
    titans_available, \* module global TITANS_AVAILABLE
    mem_calls,       \* history: library calls made by the function
    \* ---- templates/custom_agent_template.py : main ----
    ca_pc,           \* position in main
    ca_proceeded,    \* "Proceeding with demonstrations..." has been reached
    ca_exit_status,  \* argument of sys.exit, -1 while none was called
    \* ---- templates/custom_agent_template.py : demonstrate_specialized_agents
    sa_pc,           \* position in demonstrate_specialized_agents
    sa_idx,          \* index of the running loop
    sa_agents,       \* the dictionary agents, as its items in insertion order
    sa_calls,        \* history: process_query calls made by the function
    \* ---- examples/memory_usage.py : main ----
    mu_pc,           \* position in main
    mu_idx,          \* which demonstration is next
    mu_warned,       \* the mock mode warning has been printed
    mu_steps,        \* history: demonstrations started by main
    \* ---- examples/advanced_system.py : main ----
    as_pc,           \* position in main / demonstrate_integrated_system
    as_idx,          \* index of the running sequence of steps
    as_key,          \* groq_key of demonstrate_integrated_system
    as_warned,       \* the mock mode warning has been printed
    as_steps,        \* history: steps 3-8 of demonstrate_integrated_system
    \* ---- templates/basic_agent_template.py : create_basic_agent ----
    ba_pc,           \* position in create_basic_agent
    ba_provider,     \* parameter llm_provider
    ba_titans,       \* parameter use_titans_memory
    ba_calls,        \* history: library calls made by the function
    \* ---- custom tools: can_handle and StockPriceTool._extract_ticker ----
    tl_task,         \* parameter task
    tl_isstr,        \* isinstance(task, str)
    tl_op,           \* the method that was applied to task, "none" before
    tl_can,          \* what can_handle returned
    tl_raised,       \* the method raised
    tl_ticker        \* what _extract_ticker returned

cliVars == <<cli_pc, cli_agent, cli_session_id, next_tool, llm_provider,
             llm_model, cli_inputs, cli_calls>>

wsVars == <<ws_mode, ws_pc, ws_agent, ws_log>>

appVars == <<app_mode, app_pc, app_agent, app_init_result, app_uses,
             app_cookie, app_log>>

orchVars == <<orch_created, orch_pc, orch_type, orch_idx, orch_events,
              workflow_history>>

memVars == <<mem_pc, mem_idx, mem_cwd, titans_available, mem_calls>>

caVars == <<ca_pc, ca_proceeded, ca_exit_status>>

saVars == <<sa_pc, sa_idx, sa_agents, sa_calls>>

muVars == <<mu_pc, mu_idx, mu_warned, mu_steps>>

asVars == <<as_pc, as_idx, as_key, as_warned, as_steps>>

baVars == <<ba_pc, ba_provider, ba_titans, ba_calls>>

tlVars == <<tl_task, tl_isstr, tl_op, tl_can, tl_raised, tl_ticker>>

vars == <<script, cliVars, wsVars, env, appVars, orchVars, memVars, caVars,
         saVars, muVars, asVars, baVars, tlVars>>

----------------------------------------------------------------------------
(* Bounds *)

MaxInputs == 3

MaxRequests == 2

MaxChats == 4

MaxWorkflows == 2
\* Number of words of a task given to a custom tool.
MaxWords == 2

----------------------------------------------------------------------------
(* Python values and str operations *)

None == <<"None">>

Truthy(x) == x # None /\ x # <<>>

\* An opaque SingleAgent object of the metis_agent library.
AGENT == <<"SingleAgent">>

UpperAlpha == <<"A","B","C","D","E","F","G","H","I","J","K","L","M",
                "N","O","P","Q","R","S","T","U","V","W","X","Y","Z">>

LowerAlpha == <<"a","b","c","d","e","f","g","h","i","j","k","l","m",
                "n","o","p","q","r","s","t","u","v","w","x","y","z">>

LowerChar(c) ==
    IF \E i \in 1..26 : UpperAlpha[i] = c
    THEN LowerAlpha[CHOOSE i \in 1..26 : UpperAlpha[i] = c]
    ELSE c

\* str.lower()
Lower(s) == [i \in 1..Len(s) |-> LowerChar(s[i])]

\* str.startswith(p)
StartsWith(s, p) == Len(s) >= Len(p) /\ SubSeq(s, 1, Len(p)) = p

\* s[n:]
SliceFrom(s, n) == SubSeq(s, n + 1, Len(s))

Whitespace == {" ", "\t"}

RECURSIVE LStrip(_)
LStrip(s) ==
    IF s # <<>> /\ Head(s) \in Whitespace THEN LStrip(Tail(s)) ELSE s

RECURSIVE RStrip(_)
RStrip(s) ==
    IF s # <<>> /\ s[Len(s)] \in Whitespace
    THEN RStrip(SubSeq(s, 1, Len(s) - 1))
    ELSE s

\* str.strip()
Strip(s) == RStrip(LStrip(s))

----------------------------------------------------------------------------
(* examples/cli_app.py *)

INTERACTIVE_SESSION ==
    <<"i","n","t","e","r","a","c","t","i","v","e","_","s","e","s","s","i","o","n">>

CLI_SESSION == <<"c","l","i","_","s","e","s","s","i","o","n">>

OPENAI == <<"o","p","e","n","a","i">>

GPT_4O == <<"g","p","t","-","4","o">>

EXIT_WORD == <<"e","x","i","t">>

QUIT_WORD == <<"q","u","i","t">>

SESSION_PREFIX == <<"s","e","s","s","i","o","n"," ">>

TOOL_PREFIX == <<"t","o","o","l"," ">>

PROVIDER_PREFIX == <<"p","r","o","v","i","d","e","r"," ">>

MODEL_PREFIX == <<"m","o","d","e","l"," ">>

\* Lines the user may type at the prompt.
Lines ==
    { <<"e","x","i","t">>,
      <<"Q","U","I","T">>,
      <<"e","x","i","t"," ">>,
      <<"s","e","s","s","i","o","n"," ","a">>,
      <<"S","e","s","s","i","o","n"," "," ","B"," ">>,
      <<"s","e","s","s","i","o","n"," ">>,
      <<"t","o","o","l"," ","t">>,
      <<"T","O","O","L"," ","U"," ">>,
      <<"p","r","o","v","i","d","e","r"," ","g","r","o","q">>,
      <<"m","o","d","e","l"," ","m">>,
      <<"h","i">>,
      <<"t","o","o","l","s">> }

\* Outcomes of self.agent.process_query followed by the print of line 109:
\* a str is returned, something that cannot be concatenated to a str is
\* returned (the print raises TypeError inside the try), or the agent raises.
QueryOutcomes == {"returned", "returned_nonstr", "raised"}

InitOutcomes == {"ok", "raised"}

IsExitM(line) == line \in {EXIT_WORD, QUIT_WORD}

IsExit(line) == Lower(line) \in {EXIT_WORD, QUIT_WORD}

IsSessionCmd(line) == StartsWith(Lower(line), SESSION_PREFIX)

IsToolCmd(line) == StartsWith(Lower(line), TOOL_PREFIX)

IsProviderCmd(line) == StartsWith(Lower(line), PROVIDER_PREFIX)

IsModelCmd(line) == StartsWith(Lower(line), MODEL_PREFIX)

\* process_query line 38 with the session_id argument left at None.
ResolveSessionIdM(arg, self_session) == CLI_SESSION

ResolveSessionId(arg, self_session) ==
    IF Truthy(arg) THEN arg
    ELSE IF Truthy(self_session) THEN self_session
    ELSE CLI_SESSION

\* Line 114: executed after the try/except, whatever the outcome was.
NextToolAfterQueryM(tool, outcome) == IF outcome = "raised" THEN tool ELSE None

NextToolAfterQuery(tool, outcome) == None

\* interactive_mode lines 56-63.
StartInteractive ==
    /\ script = "cli_app"
    /\ cli_pc = "start"
    /\ \E o \in InitOutcomes :
         IF o = "ok"
         THEN /\ cli_agent' = AGENT
              /\ cli_session_id' = INTERACTIVE_SESSION
              /\ next_tool' = None
              /\ cli_pc' = "prompt"
         ELSE /\ cli_pc' = "crashed"
              /\ UNCHANGED <<cli_agent, cli_session_id, next_tool>>
    /\ UNCHANGED <<script, wsVars, env, appVars, orchVars, memVars, caVars,
                   saVars, muVars, asVars, baVars, tlVars, llm_provider,
                   llm_model, cli_inputs, cli_calls>>

\* The guard shared by every pass through the loop body: input() returned.
ReadLine(line) ==
    /\ script = "cli_app"
    /\ cli_pc = "prompt"
    /\ Len(cli_inputs) < MaxInputs
    /\ cli_inputs' = Append(cli_inputs, line)

\* Lines 76-78.
ReadExit ==
    \E line \in Lines :
      /\ ReadLine(line)
      /\ IsExit(line)
      /\ cli_pc' = "done"
      /\ UNCHANGED <<script, wsVars, env, appVars, orchVars, memVars, caVars,
                     saVars, muVars, asVars, baVars, tlVars, cli_agent,
                     cli_session_id, next_tool, llm_provider, llm_model,
                     cli_calls>>

\* Lines 81-84.
ReadSession ==
    \E line \in Lines :
      /\ ReadLine(line)
      /\ ~IsExit(line)
      /\ IsSessionCmd(line)
      /\ cli_session_id' = Strip(SliceFrom(line, 8))
      /\ UNCHANGED <<script, wsVars, env, appVars, orchVars, memVars, caVars,
                     saVars, muVars, asVars, baVars, tlVars, cli_pc, cli_agent,
                     next_tool, llm_provider, llm_model, cli_calls>>

\* Lines 87-90.
ReadTool ==
    \E line \in Lines :
      /\ ReadLine(line)
      /\ ~IsExit(line)
      /\ ~IsSessionCmd(line)
      /\ IsToolCmd(line)
      /\ next_tool' = Strip(SliceFrom(line, 5))
      /\ UNCHANGED <<script, wsVars, env, appVars, orchVars, memVars, caVars,
                     saVars, muVars, asVars, baVars, tlVars, cli_pc, cli_agent,
                     cli_session_id, llm_provider, llm_model, cli_calls>>

\* Lines 93-97; initialize_agent is called outside any try.
ReadProvider ==
    \E line \in Lines, o \in InitOutcomes :
      /\ ReadLine(line)
      /\ ~IsExit(line)
      /\ ~IsSessionCmd(line)
      /\ ~IsToolCmd(line)
      /\ IsProviderCmd(line)
      /\ llm_provider' = Strip(SliceFrom(line, 9))
      /\ cli_pc' = IF o = "ok" THEN "prompt" ELSE "crashed"
      /\ UNCHANGED <<script, wsVars, env, appVars, orchVars, memVars, caVars,
                     saVars, muVars, asVars, baVars, tlVars, cli_agent,
                     cli_session_id, next_tool, llm_model, cli_calls>>

\* Lines 100-104.
ReadModel ==
    \E line \in Lines, o \in InitOutcomes :
      /\ ReadLine(line)
      /\ ~IsExit(line)
      /\ ~IsSessionCmd(line)
      /\ ~IsToolCmd(line)
      /\ ~IsProviderCmd(line)
      /\ IsModelCmd(line)
      /\ llm_model' = Strip(SliceFrom(line, 6))
      /\ cli_pc' = IF o = "ok" THEN "prompt" ELSE "crashed"
      /\ UNCHANGED <<script, wsVars, env, appVars, orchVars, memVars, caVars,
                     saVars, muVars, asVars, baVars, tlVars, cli_agent,
                     cli_session_id, next_tool, llm_provider, cli_calls>>

\* Lines 107-114 together with MetisAgentCLI.process_query (lines 32-44).
ReadQuery ==
    \E line \in Lines, o \in QueryOutcomes, io \in InitOutcomes :
      /\ ReadLine(line)
      /\ ~IsExit(line)
      /\ ~IsSessionCmd(line)
      /\ ~IsToolCmd(line)
      /\ ~IsProviderCmd(line)
      /\ ~IsModelCmd(line)
      /\ IF cli_agent = None /\ io = "raised"
         THEN \* initialize_agent raised inside process_query: caught at 110
              UNCHANGED <<cli_agent, cli_session_id, cli_calls>>
         ELSE LET sid == ResolveSessionId(None, cli_session_id) IN
              /\ cli_agent' = AGENT
              /\ cli_session_id' = sid
              /\ cli_calls' = Append(cli_calls,
                                [at |-> Len(cli_inputs) + 1,
                                 query |-> line,
                                 session_id |-> sid,
                                 tool_name |-> next_tool,
                                 outcome |-> o])
      /\ next_tool' = NextToolAfterQuery(next_tool, o)
      /\ UNCHANGED <<script, wsVars, env, appVars, orchVars, memVars, caVars,
                     saVars, muVars, asVars, baVars, tlVars, cli_pc,
                     llm_provider, llm_model>>

CliNext ==
    \/ StartInteractive
    \/ ReadExit
    \/ ReadSession
    \/ ReadTool
    \/ ReadProvider
    \/ ReadModel
    \/ ReadQuery

CliInit ==
    /\ cli_pc = "start"
    /\ cli_agent = None
    /\ cli_session_id = None
    /\ next_tool = None
    /\ llm_provider = OPENAI
    /\ llm_model = GPT_4O
    /\ cli_inputs = <<>>
    /\ cli_calls = <<>>


----------------------------------------------------------------------------
(* examples/web_server.py *)

DEFAULT_SESSION == <<"d","e","f","a","u","l","t","_","s","e","s","s","i","o","n">>

MISSING_QUERY == <<"M","i","s","s","i","n","g"," ","q","u","e","r","y"," ","p","a","r","a","m","e","t","e","r">>

\* str(e) of the AttributeError raised by agent.process_query on None.
NONE_ATTR_MSG ==
    <<"'","N","o","n","e","T","y","p","e","'"," ","o","b","j","e","c","t"," ","h","a","s"," ","n","o"," ","a","t","t","r","i","b","u","t","e"," ","'","p","r","o","c","e","s","s","_","q","u","e","r","y","'">>

\* dict.get(k, default)
DictGet(d, k, default) == IF k \in DOMAIN d THEN d[k] ELSE default

\* What request.json gives the handler: it raises (malformed JSON, or no JSON
\* body under Flask >= 2.1), yields None (JSON null, or no JSON body under
\* Flask 2.0), or yields the decoded object.
RequestBodies ==
    { [json |-> "raise", obj |-> <<>>],
      [json |-> "null", obj |-> <<>>],
      [json |-> "object", obj |-> <<>>],
      [json |-> "object", obj |-> [other |-> <<"x">>]],
      [json |-> "object", obj |-> [query |-> <<"q">>]],
      [json |-> "object", obj |-> [query |-> <<>>, session_id |-> None]],
      [json |-> "object", obj |-> [query |-> <<"q">>, session_id |-> <<"s">>]],
      [json |-> "object", obj |-> [query |-> <<"q">>, tool_name |-> <<"t">>]],
      [json |-> "object",
       obj |-> [query |-> <<"r">>, session_id |-> <<"s">>, tool_name |-> <<"t">>]] }

\* Outcomes of agent.process_query: a result or an Exception with a message.
AgentOutcomes ==
    { [kind |-> "returned", value |-> <<"o","k">>],
      [kind |-> "returned", value |-> <<>>],
      [kind |-> "raised", value |-> <<"b","o","o","m">>] }

NoExc == [type |-> "none", msg |-> <<>>]

\* Line 67: 'except Exception' catches every exception modelled here.
CatchesM(exc) == exc.type = "AgentError"

Catches(exc) == TRUE

\* Line 51.
MissingQuery(body) ==
    \/ body.json = "null"
    \/ body.obj = <<>>
    \/ "query" \notin DOMAIN body.obj

\* Lines 55 and 56.
BodySessionIdM(obj) == DEFAULT_SESSION

BodySessionId(obj) == DictGet(obj, "session_id", DEFAULT_SESSION)

BodyToolName(obj) == DictGet(obj, "tool_name", None)

\* The exception, if any, that the try block of process_query raises.
HandlerException(body, agent, out) ==
    IF body.json = "raise"
    THEN [type |-> "HTTPException", msg |-> <<"b","a","d">>]
    ELSE IF MissingQuery(body) THEN NoExc
    ELSE IF agent = None
    THEN [type |-> "AttributeError", msg |-> NONE_ATTR_MSG]
    ELSE IF out.kind = "raised"
    THEN [type |-> "AgentError", msg |-> out.value]
    ELSE NoExc

\* The calls of agent.process_query made by one run of the handler.
HandlerCalls(body, agent, out) ==
    IF body.json = "raise" \/ MissingQuery(body) \/ agent = None
    THEN <<>>
    ELSE << [query |-> body.obj["query"],
             session_id |-> BodySessionId(body.obj),
             tool_name |-> BodyToolName(body.obj),
             outcome |-> out] >>

\* Status and JSON payload of the response; status 0 stands for an exception
\* that left the handler.
HandlerResponse(body, agent, out) ==
    LET exc == HandlerException(body, agent, out) IN
    IF exc # NoExc
    THEN IF Catches(exc)
         THEN [status |-> 500, payload |-> [error |-> exc.msg, status |-> "error"]]
         ELSE [status |-> 0, payload |-> <<>>]
    ELSE IF MissingQuery(body)
    THEN [status |-> 400, payload |-> [error |-> MISSING_QUERY]]
    ELSE [status |-> 200,
          payload |-> [response |-> out.value,
                       session_id |-> BodySessionId(body.obj)]]

\* initialize_agent, lines 16-29.
WsInitializeAgent ==
    /\ script = "web_server"
    /\ ws_mode = "imported"
    /\ ws_pc = "loaded"
    /\ ws_agent' = AGENT
    /\ UNCHANGED <<script, cliVars, env, appVars, orchVars, memVars, caVars,
                   saVars, muVars, asVars, baVars, tlVars, ws_mode, ws_pc,
                   ws_log>>

\* main, lines 103-114: initialize_agent, then host and port, then app.run.
WsMain ==
    /\ script = "web_server"
    /\ ws_mode = "script"
    /\ ws_pc = "loaded"
    /\ \E o \in InitOutcomes, portOk \in BOOLEAN :
         IF o = "raised"
         THEN ws_pc' = "crashed" /\ UNCHANGED ws_agent
         ELSE /\ ws_agent' = AGENT
              /\ ws_pc' = IF portOk THEN "serving" ELSE "crashed"
    /\ UNCHANGED <<script, cliVars, env, appVars, orchVars, memVars, caVars,
                   saVars, muVars, asVars, baVars, tlVars, ws_mode, ws_log>>

\* POST /api/query, lines 44-71.
WsProcessQuery ==
    /\ script = "web_server"
    /\ \/ ws_mode = "script" /\ ws_pc = "serving"
       \/ ws_mode = "imported" /\ ws_pc = "loaded"
    /\ Len(ws_log) < MaxRequests
    /\ \E body \in RequestBodies, out \in AgentOutcomes :
         ws_log' = Append(ws_log,
                     [body |-> body,
                      agent |-> ws_agent,
                      exc |-> HandlerException(body, ws_agent, out),
                      calls |-> HandlerCalls(body, ws_agent, out),
                      resp |-> HandlerResponse(body, ws_agent, out)])
    /\ UNCHANGED <<script, cliVars, env, appVars, orchVars, memVars, caVars,
                   saVars, muVars, asVars, baVars, tlVars, ws_mode, ws_pc,
                   ws_agent>>

WsNext ==
    \/ WsInitializeAgent
    \/ WsMain
    \/ WsProcessQuery

\* The module creates app and sets agent to None when it is loaded (lines
\* 10-14); main runs only under the __main__ guard of line 116, so a host
\* that imports the module serves app without main having run.
WsInit ==
    /\ ws_mode \in IF script = "web_server" THEN {"script", "imported"}
                 ELSE {"script"}
    /\ ws_pc = "loaded"
    /\ ws_agent = None
    /\ ws_log = <<>>


----------------------------------------------------------------------------
(* Process environment *)

LLM_KEYS == {"OPENAI_API_KEY", "GROQ_API_KEY", "ANTHROPIC_API_KEY"}

\* A value of ten characters or fewer, and one of more than ten.
SHORT_KEY == <<"s","k","-","s","h","o","r","t">>

LONG_KEY == <<"s","k","-","l","o","n","g","-","k","e","y","-","1">>

EnvValues == {None, SHORT_KEY, LONG_KEY}

\* os.getenv(key)
GetEnv(key) == env[key]

EnvInit ==
    env \in IF \/ (script = "web_app_template" /\ app_mode = "script")
                \/ script = "custom_agent_template"
                \/ script = "memory_usage"
                \/ script = "advanced_system"
            THEN [LLM_KEYS -> EnvValues]
            ELSE {[k \in LLM_KEYS |-> None]}

----------------------------------------------------------------------------
(* templates/web_app_template.py *)

\* check_api_keys, lines 50-81: the LLM keys that pass the basic validation.
AvailableLLMs == {k \in LLM_KEYS : Truthy(GetEnv(k)) /\ Len(GetEnv(k)) > 10}

CheckApiKeys == AvailableLLMs # {}

\* uuid.uuid4() returns some identifier.
UUIDs == {<<"u","1">>, <<"u","2">>}

\* What request.get_json() gives chat: None, or an object with a message.
ChatBodies ==
    { [json |-> "null", message |-> <<>>],
      [json |-> "object", message |-> <<" ">>],
      [json |-> "object", message |-> <<" ","h","i">>] }

\* agent.process_query returned and agent.get_agent_identity returned;
\* process_query raised; process_query returned and get_agent_identity raised.
ChatOutcomes == {"returned", "raised", "identity_raised"}

\* clear_session line 260: session.pop('session_id', None).
CookieAfterClearM(c) == c

CookieAfterClear(c) == None

\* main lines 671-682: the warning and create_chat_template.
AppMainStart ==
    /\ script = "web_app_template"
    /\ app_mode = "script"
    /\ app_pc = "loaded"
    /\ \E o \in InitOutcomes :
         app_pc' = IF o = "ok" THEN "template" ELSE "crashed"
    /\ UNCHANGED <<script, cliVars, wsVars, orchVars, memVars, caVars, saVars,
                   muVars, asVars, baVars, tlVars, env, app_mode, app_agent,
                   app_init_result, app_uses, app_cookie, app_log>>

\* main line 686 calling initialize_agent, lines 171-194.
AppInitializeAgent ==
    /\ script = "web_app_template"
    /\ app_pc = "template"
    /\ IF ~CheckApiKeys
       THEN /\ app_init_result' = "False"
            /\ app_pc' = "init_done"
            /\ UNCHANGED app_agent
       ELSE \E create \in InitOutcomes, identity \in InitOutcomes :
              IF create = "raised"
              THEN /\ app_pc' = "crashed"
                   /\ UNCHANGED <<app_agent, app_init_result>>
              ELSE /\ app_agent' = AGENT
                   /\ IF identity = "raised"
                      THEN app_pc' = "crashed" /\ UNCHANGED app_init_result
                      ELSE app_pc' = "init_done" /\ app_init_result' = "True"
    /\ UNCHANGED <<script, cliVars, wsVars, orchVars, memVars, caVars, saVars,
                   muVars, asVars, baVars, tlVars, env, app_mode, app_uses,
                   app_cookie, app_log>>

\* main lines 688-689: identity = agent.get_agent_identity(), whatever
\* initialize_agent returned.
AppGetIdentity ==
    /\ script = "web_app_template"
    /\ app_pc = "init_done"
    /\ app_uses' = Append(app_uses, [use |-> "get_agent_identity",
                                     agent |-> app_agent,
                                     init_result |-> app_init_result])
    /\ \E o \in InitOutcomes :
         app_pc' = IF app_agent # None /\ o = "ok" THEN "ready" ELSE "crashed"
    /\ UNCHANGED <<script, cliVars, wsVars, orchVars, memVars, caVars, saVars,
                   muVars, asVars, baVars, tlVars, env, app_mode, app_agent,
                   app_init_result, app_cookie, app_log>>

\* main lines 698-699: app.run.
AppRun ==
    /\ script = "web_app_template"
    /\ app_pc = "ready"
    /\ app_uses' = Append(app_uses, [use |-> "app.run",
                                     agent |-> app_agent,
                                     init_result |-> app_init_result])
    /\ app_pc' = "serving"
    /\ UNCHANGED <<script, cliVars, wsVars, orchVars, memVars, caVars, saVars,
                   muVars, asVars, baVars, tlVars, env, app_mode, app_agent,
                   app_init_result, app_cookie, app_log>>

AppServing ==
    /\ script = "web_app_template"
    /\ \/ app_mode = "script" /\ app_pc = "serving"
       \/ app_mode = "imported" /\ app_pc = "loaded"
    /\ Len(app_log) < MaxChats

\* POST /api/chat, lines 203-237.  The session is saved with the response,
\* also when the response is the 500 of the except clause.
AppChat ==
    /\ AppServing
    /\ \E body \in ChatBodies, o \in ChatOutcomes, u \in UUIDs :
         LET user_message == Strip(body.message)
             entry == [op |-> "chat", body |-> body, cookie_before |-> app_cookie,
                       generated |-> None, sid |-> None, call_sid |-> None,
                       status |-> 500]
         IN
         IF body.json = "null"
         THEN \* data.get raises AttributeError
              /\ app_log' = Append(app_log, entry)
              /\ UNCHANGED app_cookie
         ELSE IF ~Truthy(user_message)
         THEN /\ app_log' = Append(app_log, [entry EXCEPT !.status = 400])
              /\ UNCHANGED app_cookie
         ELSE LET gen == IF app_cookie = None THEN u ELSE None
                  session_id == IF app_cookie = None THEN u ELSE app_cookie
              IN
              /\ app_cookie' = session_id
              /\ app_log' = Append(app_log,
                   [entry EXCEPT
                      !.generated = gen,
                      !.sid = session_id,
                      !.call_sid = IF app_agent = None THEN None ELSE session_id,
                      !.status = IF app_agent # None /\ o = "returned"
                                 THEN 200 ELSE 500])
    /\ UNCHANGED <<script, cliVars, wsVars, orchVars, memVars, caVars, saVars,
                   muVars, asVars, baVars, tlVars, env, app_mode, app_pc,
                   app_agent, app_init_result, app_uses>>

\* POST /api/clear-session, lines 254-263.
AppClearSession ==
    /\ AppServing
    /\ app_cookie' = CookieAfterClear(app_cookie)
    /\ app_log' = Append(app_log,
                    [op |-> "clear", body |-> [json |-> "null", message |-> <<>>],
                     cookie_before |-> app_cookie, generated |-> None,
                     sid |-> None, call_sid |-> None, status |-> 200])
    /\ UNCHANGED <<script, cliVars, wsVars, orchVars, memVars, caVars, saVars,
                   muVars, asVars, baVars, tlVars, env, app_mode, app_pc,
                   app_agent, app_init_result, app_uses>>

AppNext ==
    \/ AppMainStart
    \/ AppInitializeAgent
    \/ AppGetIdentity
    \/ AppRun
    \/ AppChat
    \/ AppClearSession

\* As in web_server: app and agent = None exist once the module is loaded
\* (lines 42-48), main runs only under the __main__ guard of line 703.
AppInit ==
    /\ app_mode \in IF script = "web_app_template" THEN {"script", "imported"}
                    ELSE {"script"}
    /\ app_pc = "loaded"
    /\ app_agent = None
    /\ app_init_result = "unset"
    /\ app_uses = <<>>
    /\ app_cookie = None
    /\ app_log = <<>>


----------------------------------------------------------------------------
(* templates/advanced_integration_template.py : AgentOrchestrator *)

\* The agents in the order the workflows use them: the statement order of
\* _execute_sequential_workflow and the insertion order of the queries dict
\* of _execute_parallel_workflow (lines 201-205).
AgentOrderM == <<"code_generator", "data_analyst", "report_writer">>

AgentOrder == <<"data_analyst", "code_generator", "report_writer">>

WorkflowTypes == {"sequential", "parallel", "other"}

\* process_query returns a str, returns something a slice cannot be taken of,
\* or raises.
OrchOutcomes == {"str", "nonstr", "raised"}

\* results of execute_workflow as appended to self.workflow_history.
WorkflowResult(type, events, success) ==
    [type |-> type, events |-> events, success |-> success]

\* create_specialized_agents, lines 105-137.
OrchCreateAgents ==
    /\ script = "advanced_integration_template"
    /\ orch_pc = "idle"
    /\ ~orch_created
    /\ \E o \in InitOutcomes :
         IF o = "ok"
         THEN orch_created' = TRUE /\ UNCHANGED orch_pc
         ELSE orch_pc' = "crashed" /\ UNCHANGED orch_created
    /\ UNCHANGED <<script, cliVars, wsVars, env, appVars, memVars, caVars,
                   saVars, muVars, asVars, baVars, tlVars, orch_type, orch_idx,
                   orch_events, workflow_history>>

\* execute_workflow, lines 139-161: dispatch on workflow_type.
OrchExecuteWorkflow ==
    /\ script = "advanced_integration_template"
    /\ orch_pc = "idle"
    /\ orch_created
    /\ Len(workflow_history) < MaxWorkflows
    /\ \E type \in WorkflowTypes :
         IF type = "other"
         THEN \* ValueError, caught at line 167
              /\ workflow_history' =
                   Append(workflow_history, WorkflowResult(type, <<>>, FALSE))
              /\ UNCHANGED <<orch_pc, orch_type, orch_idx, orch_events>>
         ELSE /\ orch_pc' = "next_agent"
              /\ orch_type' = type
              /\ orch_idx' = 1
              /\ orch_events' = <<>>
              /\ UNCHANGED workflow_history
    /\ UNCHANGED <<script, cliVars, wsVars, env, appVars, memVars, caVars,
                   saVars, muVars, asVars, baVars, tlVars, orch_created>>

\* Lines 180, 185, 190 and 209: self.agents[name].process_query(query) is
\* entered.
OrchCallStart ==
    /\ script = "advanced_integration_template"
    /\ orch_pc = "next_agent"
    /\ orch_events' = Append(orch_events, <<"call", AgentOrder[orch_idx]>>)
    /\ orch_pc' = "in_call"
    /\ UNCHANGED <<script, cliVars, wsVars, env, appVars, memVars, caVars,
                   saVars, muVars, asVars, baVars, tlVars, orch_created,
                   orch_type, orch_idx, workflow_history>>

\* The call comes back, and the workflow runs on to its next call or to the
\* end of execute_workflow (lines 163-172).
OrchCallEnd ==
    /\ script = "advanced_integration_template"
    /\ orch_pc = "in_call"
    /\ \E o \in OrchOutcomes :
         LET name == AgentOrder[orch_idx]
             ev == Append(orch_events,
                          <<IF o = "raised" THEN "raise" ELSE "ret", name>>)
             \* sequential: data_result[:500] at line 184, data_result[:300]
             \* and code_result[:300] at line 189 raise TypeError on a
             \* result that is not a str
             sliceFails == /\ orch_type = "sequential"
                           /\ o = "nonstr"
                           /\ orch_idx < Len(AgentOrder)
         IN
         /\ orch_events' = ev
         /\ IF o = "raised" \/ sliceFails
            THEN /\ workflow_history' =
                      Append(workflow_history,
                             WorkflowResult(orch_type, ev, FALSE))
                 /\ orch_pc' = "idle"
                 /\ UNCHANGED orch_idx
            ELSE IF orch_idx = Len(AgentOrder)
            THEN /\ workflow_history' =
                      Append(workflow_history,
                             WorkflowResult(orch_type, ev, TRUE))
                 /\ orch_pc' = "idle"
                 /\ UNCHANGED orch_idx
            ELSE /\ orch_idx' = orch_idx + 1
                 /\ orch_pc' = "next_agent"
                 /\ UNCHANGED workflow_history
    /\ UNCHANGED <<script, cliVars, wsVars, env, appVars, memVars, caVars,
                   saVars, muVars, asVars, baVars, tlVars, orch_created,
                   orch_type>>

OrchNext ==
    \/ OrchCreateAgents
    \/ OrchExecuteWorkflow
    \/ OrchCallStart
    \/ OrchCallEnd

OrchInit ==
    /\ orch_created = FALSE
    /\ orch_pc = "idle"
    /\ orch_type = "sequential"
    /\ orch_idx = 1
    /\ orch_events = <<>>
    /\ workflow_history = <<>>


----------------------------------------------------------------------------
(* examples/component_usage.py : demonstrate_memory_components *)

DEFAULT_DB_PATH == <<".","/","d","a","t","a","/","d","e","m","o","_","m","e","m","o","r","y",".","d","b">>

DB_NAME == <<"d","e","m","o","_","m","e","m","o","r","y",".","d","b">>

WorkingDirs == { <<"/">>, <<"/","w">> }

\* os.path.join(a, b) on POSIX.
OsPathJoin(a, b) ==
    IF b # <<>> /\ Head(b) = "/" THEN b
    ELSE IF a = <<>> \/ a[Len(a)] = "/" THEN a \o b
    ELSE a \o <<"/">> \o b

\* Line 200.
FallbackDbPathM(cwd) == DEFAULT_DB_PATH

FallbackDbPath(cwd) == OsPathJoin(cwd, DB_NAME)

\* The sqlite_memory calls of lines 208-221, made outside any try.
MemoryOps == <<"store_input", "store_output", "store_task", "get_context",
               "update_task_status">>

\* The constructions of lines 229-234, made inside one try.
TitansOps == <<"TitansInspiredMemory", "TitansMemoryAdapter", "TitansAnalytics">>

LibCall(op, arg, outcome) == [op |-> op, arg |-> arg, outcome |-> outcome]

\* Lines 191-195: the first SQLiteMemory construction.
MemConstruct ==
    /\ script = "component_usage"
    /\ mem_pc = "start"
    /\ \E o \in InitOutcomes :
         /\ mem_calls' = Append(mem_calls,
                                LibCall("SQLiteMemory", DEFAULT_DB_PATH, o))
         /\ mem_pc' = IF o = "ok" THEN "store" ELSE "retry"
    /\ UNCHANGED <<script, cliVars, wsVars, env, appVars, orchVars, caVars,
                   saVars, muVars, asVars, baVars, tlVars, mem_idx, mem_cwd,
                   titans_available>>

\* Lines 196-205: the handler of the first failure constructs SQLiteMemory
\* again, in the current directory.
MemRetryConstruct ==
    /\ script = "component_usage"
    /\ mem_pc = "retry"
    /\ \E o \in InitOutcomes :
         /\ mem_calls' = Append(mem_calls,
                                LibCall("SQLiteMemory", FallbackDbPath(mem_cwd), o))
         /\ mem_pc' = IF o = "ok" THEN "store" ELSE "returned"
    /\ UNCHANGED <<script, cliVars, wsVars, env, appVars, orchVars, caVars,
                   saVars, muVars, asVars, baVars, tlVars, mem_idx, mem_cwd,
                   titans_available>>

\* Lines 207-222: one sqlite_memory call; an exception leaves the function.
MemStoreStep ==
    /\ script = "component_usage"
    /\ mem_pc = "store"
    /\ \E o \in InitOutcomes :
         /\ mem_calls' = Append(mem_calls, LibCall(MemoryOps[mem_idx], <<>>, o))
         /\ IF o = "raised"
            THEN mem_pc' = "crashed" /\ UNCHANGED mem_idx
            ELSE IF mem_idx = Len(MemoryOps)
            THEN mem_pc' = "titans" /\ UNCHANGED mem_idx
            ELSE mem_idx' = mem_idx + 1 /\ UNCHANGED mem_pc
    /\ UNCHANGED <<script, cliVars, wsVars, env, appVars, orchVars, caVars,
                   saVars, muVars, asVars, baVars, tlVars, mem_cwd,
                   titans_available>>

\* Lines 224-240: the Titans constructions up to the first that raises.
MemTitans ==
    /\ script = "component_usage"
    /\ mem_pc = "titans"
    /\ \E n \in 0..Len(TitansOps) :
         mem_calls' =
           IF ~titans_available THEN mem_calls
           ELSE mem_calls \o
                [i \in 1..(IF n = Len(TitansOps) THEN n ELSE n + 1) |->
                   LibCall(TitansOps[i], <<>>,
                           IF i <= n THEN "ok" ELSE "raised")]
    /\ mem_pc' = "returned"
    /\ UNCHANGED <<script, cliVars, wsVars, env, appVars, orchVars, caVars,
                   saVars, muVars, asVars, baVars, tlVars, mem_idx, mem_cwd,
                   titans_available>>

MemNext ==
    \/ MemConstruct
    \/ MemRetryConstruct
    \/ MemStoreStep
    \/ MemTitans

MemInit ==
    /\ mem_pc = "start"
    /\ mem_idx = 1
    /\ mem_cwd \in IF script = "component_usage" THEN WorkingDirs ELSE {<<"/">>}
    /\ titans_available \in IF script = "component_usage" THEN BOOLEAN ELSE {FALSE}
    /\ mem_calls = <<>>


----------------------------------------------------------------------------
(* templates/custom_agent_template.py : main *)

\* check_api_keys, lines 393-412: the keys of required_keys that are missing.
MissingRequired == {k \in LLM_KEYS : ~Truthy(GetEnv(k))}

\* check_api_keys, lines 422-430.
CaCheckApiKeys == MissingRequired = {}

\* The demonstrations of lines 463, 468 and 471, inside the try of main.
Demonstrations == <<"demonstrate_custom_agent", "demonstrate_specialized_agents",
                    "demonstrate_v6_features">>

\* main lines 436-457: the environment is loaded and check_api_keys decides.
CaCheck ==
    /\ script = "custom_agent_template"
    /\ ca_pc = 0
    /\ IF CaCheckApiKeys
       THEN /\ ca_proceeded' = TRUE
            /\ ca_pc' = 1
            /\ UNCHANGED ca_exit_status
       ELSE /\ ca_exit_status' = 1
            /\ ca_pc' = Len(Demonstrations) + 1
            /\ UNCHANGED ca_proceeded
    /\ UNCHANGED <<script, cliVars, wsVars, env, appVars, orchVars, memVars,
                   saVars, muVars, asVars, baVars, tlVars>>

\* main lines 459-487: one demonstration; an exception ends main with
\* sys.exit(1).  demonstrate_specialized_agents is modelled step by step
\* below, and main goes on when it has returned or raised.
CaDemonstrate ==
    /\ script = "custom_agent_template"
    /\ ca_pc \in 1..Len(Demonstrations)
    /\ Demonstrations[ca_pc] = "demonstrate_specialized_agents"
         => sa_pc \in {"done", "raised"}
    /\ \E o \in InitOutcomes :
         /\ Demonstrations[ca_pc] = "demonstrate_specialized_agents"
              => (o = "ok" <=> sa_pc = "done")
         /\ IF o = "ok"
            THEN /\ ca_pc' = ca_pc + 1
                 /\ ca_exit_status' = IF ca_pc = Len(Demonstrations) THEN 0
                                      ELSE ca_exit_status
            ELSE /\ ca_pc' = Len(Demonstrations) + 1
                 /\ ca_exit_status' = 1
    /\ UNCHANGED <<script, cliVars, wsVars, env, appVars, orchVars, memVars,
                   saVars, muVars, asVars, baVars, tlVars, ca_proceeded>>

CaNext ==
    \/ CaCheck
    \/ CaDemonstrate

CaInit ==
    /\ ca_pc = 0
    /\ ca_proceeded = FALSE
    /\ ca_exit_status = -1

----------------------------------------------------------------------------
(* templates/custom_agent_template.py : demonstrate_specialized_agents *)

\* create_specialized_agents, lines 153-214: the keys of agents with the
\* agent_name given to create_custom_agent, in the order of the assignments.
SpecializedAgents ==
    << [role |-> "code_wizard",    name |-> "CodeWizard"],
       [role |-> "data_sage",      name |-> "DataSage"],
       [role |-> "scholar",        name |-> "Scholar"],
       [role |-> "devops_master",  name |-> "DevOpsMaster"],
       [role |-> "word_smith",     name |-> "WordSmith"],
       [role |-> "security_guard", name |-> "SecurityGuard"] >>

\* demonstrate_specialized_agents, lines 280-285: test_cases, in the order
\* of the dictionary display.
TestCases ==
    << [role |-> "code_assistant", query |-> "optimize this Python code"],
       [role |-> "data_analyst",   query |-> "analyzing customer churn data"],
       [role |-> "writer",         query |-> "improve the clarity"],
       [role |-> "researcher",     query |-> "latest trends in AI research"] >>

\* line 291: role in agents.
RoleInAgents(role, agents) == \E i \in DOMAIN agents : agents[i].role = role

\* lines 292-299: what the body of the test loop can do for one agent:
\* get_agent_identity raises (outside the try), or process_query returns a
\* str, returns something response[:200] fails on, or raises.
TestOutcomes == {"identity_raised", "returned", "returned_nonstr", "raised"}

\* main line 468 calls demonstrate_specialized_agents (lines 263-272).
SaStart ==
    /\ script = "custom_agent_template"
    /\ ca_pc \in 1..Len(Demonstrations)
    /\ Demonstrations[ca_pc] = "demonstrate_specialized_agents"
    /\ sa_pc = "idle"
    /\ sa_pc' = "create"
    /\ sa_idx' = 1
    /\ UNCHANGED <<script, cliVars, wsVars, env, appVars, orchVars, memVars,
                   caVars, muVars, asVars, baVars, tlVars, sa_agents, sa_calls>>

\* create_specialized_agents, lines 153-217: one agents[role] =
\* create_custom_agent(...); an exception of the library leaves the function
\* and demonstrate_specialized_agents.
SaCreate ==
    /\ script = "custom_agent_template"
    /\ sa_pc = "create"
    /\ \E o \in InitOutcomes :
         IF o = "ok"
         THEN /\ sa_agents' = Append(sa_agents, SpecializedAgents[sa_idx])
              /\ IF sa_idx = Len(SpecializedAgents)
                 THEN sa_pc' = "display" /\ sa_idx' = 1
                 ELSE sa_idx' = sa_idx + 1 /\ UNCHANGED sa_pc
         ELSE /\ sa_pc' = "raised"
              /\ UNCHANGED <<sa_agents, sa_idx>>
    /\ UNCHANGED <<script, cliVars, wsVars, env, appVars, orchVars, memVars,
                   caVars, muVars, asVars, baVars, tlVars, sa_calls>>

\* lines 275-278: the identity of one agent is displayed.
SaDisplay ==
    /\ script = "custom_agent_template"
    /\ sa_pc = "display"
    /\ \E o \in InitOutcomes :
         IF o = "ok"
         THEN IF sa_idx = Len(sa_agents)
              THEN sa_pc' = "test" /\ sa_idx' = 1
              ELSE sa_idx' = sa_idx + 1 /\ UNCHANGED sa_pc
         ELSE sa_pc' = "raised" /\ UNCHANGED sa_idx
    /\ UNCHANGED <<script, cliVars, wsVars, env, appVars, orchVars, memVars,
                   caVars, muVars, asVars, baVars, tlVars, sa_agents, sa_calls>>

\* lines 290-300: one iteration of for role, query in test_cases.items().
SaTest ==
    /\ script = "custom_agent_template"
    /\ sa_pc = "test"
    /\ LET tc == TestCases[sa_idx]
           advance == IF sa_idx = Len(TestCases)
                      THEN sa_pc' = "done" /\ UNCHANGED sa_idx
                      ELSE sa_idx' = sa_idx + 1 /\ UNCHANGED sa_pc
       IN  IF RoleInAgents(tc.role, sa_agents)
           THEN \E o \in TestOutcomes :
                  IF o = "identity_raised"
                  THEN /\ sa_pc' = "raised"
                       /\ UNCHANGED <<sa_idx, sa_calls>>
                  ELSE /\ sa_calls' = Append(sa_calls,
                             [role |-> tc.role, query |-> tc.query,
                              outcome |-> o])
                       /\ advance
           ELSE /\ advance
                /\ UNCHANGED sa_calls
    /\ UNCHANGED <<script, cliVars, wsVars, env, appVars, orchVars, memVars,
                   caVars, muVars, asVars, baVars, tlVars, sa_agents>>

SaNext ==
    \/ SaStart
    \/ SaCreate
    \/ SaDisplay
    \/ SaTest

SaInit ==
    /\ sa_pc = "idle"
    /\ sa_idx = 0
    /\ sa_agents = <<>>
    /\ sa_calls = <<>>

----------------------------------------------------------------------------
(* examples/memory_usage.py : main *)

\* main, lines 150-152: the demonstrations, in the order they are called.
MemoryDemonstrations == <<"demonstrate_basic_memory",
                          "demonstrate_titans_memory",
                          "demonstrate_multiple_sessions">>

\* main, lines 140-147: the key is read; without it the warning is printed
\* and main returns, with it configure_llm is called.
MuCheckKey ==
    /\ script = "memory_usage"
    /\ mu_pc = "start"
    /\ IF ~Truthy(GetEnv("GROQ_API_KEY"))
       THEN /\ mu_warned' = TRUE
            /\ mu_pc' = "returned"
       ELSE /\ UNCHANGED mu_warned
            /\ \E o \in InitOutcomes :
                 mu_pc' = IF o = "ok" THEN "demos" ELSE "crashed"
    /\ UNCHANGED <<script, cliVars, wsVars, env, appVars, orchVars, memVars,
                   caVars, saVars, asVars, baVars, tlVars, mu_idx, mu_steps>>

\* main, lines 150-154: one demonstration; its exception leaves main.
MuDemonstrate ==
    /\ script = "memory_usage"
    /\ mu_pc = "demos"
    /\ mu_steps' = Append(mu_steps, MemoryDemonstrations[mu_idx])
    /\ \E o \in InitOutcomes :
         IF o = "raised"
         THEN mu_pc' = "crashed" /\ UNCHANGED mu_idx
         ELSE IF mu_idx = Len(MemoryDemonstrations)
              THEN mu_pc' = "returned" /\ UNCHANGED mu_idx
              ELSE mu_idx' = mu_idx + 1 /\ UNCHANGED mu_pc
    /\ UNCHANGED <<script, cliVars, wsVars, env, appVars, orchVars, memVars,
                   caVars, saVars, asVars, baVars, tlVars, mu_warned>>

MuNext ==
    \/ MuCheckKey
    \/ MuDemonstrate

MuInit ==
    /\ mu_pc = "start"
    /\ mu_idx = 1
    /\ mu_warned = FALSE
    /\ mu_steps = <<>>

----------------------------------------------------------------------------
(* examples/advanced_system.py : main, demonstrate_integrated_system *)

\* main, lines 263-266: the component demonstrations run before the
\* integrated one.
ComponentDemonstrations == <<"demonstrate_auth_system",
                             "demonstrate_memory_systems",
                             "demonstrate_scheduling_system",
                             "demonstrate_web_formatting">>

\* demonstrate_integrated_system, lines 219-245: steps 3 to 8.
IntegratedSteps == <<"demonstrate_memory_systems", "SingleAgent",
                     "demonstrate_scheduling_system", "process_query",
                     "demonstrate_web_formatting", "TitansAnalytics">>

\* APIKeyManager.get_key("groq"), line 208: the key set_key stored from the
\* environment (lines 64-66); without it the library's store decides, it
\* holds no key or one stored by an earlier run.
GetKeyResults ==
    IF Truthy(GetEnv("GROQ_API_KEY"))
    THEN {GetEnv("GROQ_API_KEY")}
    ELSE {None, LONG_KEY}

\* main, lines 261-266: one component demonstration inside the try.
AsComponent ==
    /\ script = "advanced_system"
    /\ as_pc = "main"
    /\ \E o \in InitOutcomes :
         IF o = "raised"
         THEN as_pc' = "caught" /\ UNCHANGED as_idx
         ELSE IF as_idx = Len(ComponentDemonstrations)
              THEN as_pc' = "auth" /\ as_idx' = 1
              ELSE as_idx' = as_idx + 1 /\ UNCHANGED as_pc
    /\ UNCHANGED <<script, cliVars, wsVars, env, appVars, orchVars, memVars,
                   caVars, saVars, muVars, baVars, tlVars, as_key, as_warned,
                   as_steps>>

\* demonstrate_integrated_system, lines 205-208: demonstrate_auth_system and
\* get_key.
AsGetKey ==
    /\ script = "advanced_system"
    /\ as_pc = "auth"
    /\ \E o \in InitOutcomes :
         IF o = "raised"
         THEN as_pc' = "caught" /\ UNCHANGED as_key
         ELSE /\ as_pc' = "key"
              /\ as_key' \in GetKeyResults
    /\ UNCHANGED <<script, cliVars, wsVars, env, appVars, orchVars, memVars,
                   caVars, saVars, muVars, baVars, tlVars, as_idx, as_warned,
                   as_steps>>

\* demonstrate_integrated_system, lines 209-214: configure_llm with the key,
\* or the warning and return.
AsConfigure ==
    /\ script = "advanced_system"
    /\ as_pc = "key"
    /\ IF Truthy(as_key)
       THEN /\ UNCHANGED as_warned
            /\ \E o \in InitOutcomes :
                 as_pc' = IF o = "ok" THEN "steps" ELSE "caught"
       ELSE /\ as_warned' = TRUE
            /\ as_pc' = "returned"
    /\ UNCHANGED <<script, cliVars, wsVars, env, appVars, orchVars, memVars,
                   caVars, saVars, muVars, baVars, tlVars, as_idx, as_key,
                   as_steps>>

\* demonstrate_integrated_system, lines 216-248: one of the steps 3 to 8;
\* step 8 is made only if agent.memory has a memory_store (line 243).
AsStep ==
    /\ script = "advanced_system"
    /\ as_pc = "steps"
    /\ \E o \in InitOutcomes, has_store \in BOOLEAN :
         /\ has_store = FALSE => IntegratedSteps[as_idx] = "TitansAnalytics"
         /\ IF ~has_store
            THEN /\ as_pc' = "returned"
                 /\ UNCHANGED <<as_idx, as_steps>>
            ELSE /\ as_steps' = Append(as_steps, IntegratedSteps[as_idx])
                 /\ IF o = "raised"
                    THEN as_pc' = "caught" /\ UNCHANGED as_idx
                    ELSE IF as_idx = Len(IntegratedSteps)
                         THEN as_pc' = "returned" /\ UNCHANGED as_idx
                         ELSE as_idx' = as_idx + 1 /\ UNCHANGED as_pc
    /\ UNCHANGED <<script, cliVars, wsVars, env, appVars, orchVars, memVars,
                   caVars, saVars, muVars, baVars, tlVars, as_key, as_warned>>

AsNext ==
    \/ AsComponent
    \/ AsGetKey
    \/ AsConfigure
    \/ AsStep

AsInit ==
    /\ as_pc = "main"
    /\ as_idx = 1
    /\ as_key = None
    /\ as_warned = FALSE
    /\ as_steps = <<>>

----------------------------------------------------------------------------
(* templates/basic_agent_template.py : create_basic_agent *)

\* Docstring, line 39: the documented values of llm_provider.
DocumentedProviders == {"groq", "openai", "anthropic", "huggingface"}

\* Values create_basic_agent is called with: the documented ones and one
\* that differs from them in case only.
ProviderInputs == DocumentedProviders \cup {"Groq"}

\* str(use_titans_memory), as line 44 prints it.
BoolStr(b) == IF b THEN "True" ELSE "False"

\* Lines 50-58: the configuration calls of the branch taken for a provider.
ProviderCalls(p) ==
    IF p = "groq"
    THEN << [op |-> "set_llm_provider", arg |-> "groq"],
            [op |-> "set_llm_model", arg |-> "llama-3.1-8b-instant"] >>
    ELSE IF p = "openai"
    THEN << [op |-> "set_llm_provider", arg |-> "openai"],
            [op |-> "set_llm_model", arg |-> "gpt-4o-mini"] >>
    ELSE IF p = "anthropic"
    THEN << [op |-> "set_llm_provider", arg |-> "anthropic"],
            [op |-> "set_llm_model", arg |-> "claude-3-haiku-20240307"] >>
    ELSE << >>

\* Lines 47-68: the library calls of create_basic_agent, in program order.
CreateBasicAgentCalls(p, titans) ==
    << [op |-> "AgentConfig", arg |-> ""] >>
    \o ProviderCalls(p)
    \o << [op |-> "set_memory_enabled", arg |-> BoolStr(TRUE)],
          [op |-> "set_titans_memory", arg |-> BoolStr(titans)],
          [op |-> "SingleAgent", arg |-> BoolStr(titans)] >>

\* One library call of create_basic_agent; its exception leaves the
\* function, the return of SingleAgent(...) ends it (line 70).
BaCall ==
    /\ script = "basic_agent_template"
    /\ ba_pc = "running"
    /\ LET todo == CreateBasicAgentCalls(ba_provider, ba_titans)
           k == Len(ba_calls) + 1
       IN  /\ ba_calls' = Append(ba_calls, todo[k])
           /\ \E o \in InitOutcomes :
                ba_pc' = IF o = "raised" THEN "raised"
                         ELSE IF k = Len(todo) THEN "returned"
                         ELSE "running"
    /\ UNCHANGED <<script, cliVars, wsVars, env, appVars, orchVars, memVars,
                   caVars, saVars, muVars, asVars, tlVars, ba_provider,
                   ba_titans>>

BaNext == BaCall

BaInit ==
    /\ ba_pc = "running"
    /\ ba_calls = <<>>
    /\ IF script = "basic_agent_template"
       THEN ba_provider \in ProviderInputs /\ ba_titans \in BOOLEAN
       ELSE ba_provider = "groq" /\ ba_titans = TRUE

----------------------------------------------------------------------------
(* Custom tools: examples/custom_tool.py, examples/best_practices.py,
   templates/customer_support/customer_support.py *)

\* keyword in text, for str operands.
IsSubstring(k, text) ==
    \E i \in 0..(Len(text) - Len(k)) : SubSeq(text, i + 1, i + Len(k)) = k

\* str.endswith
EndsWith(s, p) ==
    Len(s) >= Len(p) /\ SubSeq(s, Len(s) - Len(p) + 1, Len(s)) = p

\* any(keyword in text for keyword in keywords), mutated into all(...).
AnyKeywordInM(keywords, text) ==
    \A i \in DOMAIN keywords : IsSubstring(keywords[i], text)

\* any(keyword in text for keyword in keywords)
AnyKeywordIn(keywords, text) ==
    \E i \in DOMAIN keywords : IsSubstring(keywords[i], text)

\* str.split(): the maximal runs of non-whitespace characters.
RECURSIVE Split(_)
Split(s) ==
    LET t == LStrip(s)
    IN  IF t = <<>> THEN <<>>
        ELSE LET ends == {i \in 1..Len(t) : t[i] \in Whitespace}
                 n == IF ends = {} THEN Len(t) + 1
                      ELSE CHOOSE i \in ends : \A j \in ends : i <= j
             IN  <<SubSeq(t, 1, n - 1)>> \o Split(SubSeq(t, n, Len(t)))

\* custom_tool.py line 131: the characters of word.strip(",.?!:;()").
Punctuation == {",", ".", "?", "!", ":", ";", "(", ")"}

\* str.strip(chars)
RECURSIVE StripChars(_, _)
StripChars(w, chars) ==
    IF w = <<>> THEN w
    ELSE IF w[1] \in chars THEN StripChars(Tail(w), chars)
    ELSE IF w[Len(w)] \in chars
         THEN StripChars(SubSeq(w, 1, Len(w) - 1), chars)
    ELSE w

\* str.isupper(): at least one cased character and no lower-case one.
IsUpperStr(w) ==
    /\ \E i \in DOMAIN w : \E j \in DOMAIN UpperAlpha : w[i] = UpperAlpha[j]
    /\ \A i \in DOMAIN w : \A j \in DOMAIN LowerAlpha : w[i] # LowerAlpha[j]

\* custom_tool.py line 23.
WeatherKeywords ==
    << <<"w","e","a","t","h","e","r">>,
       <<"t","e","m","p","e","r","a","t","u","r","e">>,
       <<"f","o","r","e","c","a","s","t">>,
       <<"r","a","i","n">>,
       <<"s","u","n","n","y">>,
       <<"c","l","i","m","a","t","e">> >>

\* custom_tool.py line 89.
StockKeywords ==
    << <<"s","t","o","c","k">>,
       <<"p","r","i","c","e">>,
       <<"m","a","r","k","e","t">>,
       <<"s","h","a","r","e","s">>,
       <<"t","i","c","k","e","r">>,
       <<"s","t","o","c","k"," ","p","r","i","c","e">> >>

\* best_practices.py line 114.
ValidatedKeywords ==
    << <<"v","a","l","i","d","a","t","e">>,
       <<"c","h","e","c","k">>,
       <<"v","e","r","i","f","y">> >>

\* customer_support.py lines 27-29.
QuestionIndicators ==
    << <<"h","o","w">>,
       <<"w","h","a","t">>,
       <<"w","h","e","n">>,
       <<"w","h","e","r","e">>,
       <<"w","h","y">>,
       <<"w","h","o">>,
       <<"w","h","i","c","h">>,
       <<"c","a","n">>,
       <<"d","o">>,
       <<"d","o","e","s">>,
       <<"i","s">>,
       <<"a","r","e">> >>

\* customer_support.py line 40.
FaqKeywords ==
    << <<"f","a","q">>,
       <<"q","u","e","s","t","i","o","n">>,
       <<"a","n","s","w","e","r">>,
       <<"h","e","l","p">>,
       <<"s","u","p","p","o","r","t">>,
       <<"i","s","s","u","e">>,
       <<"p","r","o","b","l","e","m">> >>

\* custom_tool.py lines 114-122: common_tickers, in insertion order.
CommonTickers ==
    << [company |-> <<"a","p","p","l","e">>,
        ticker |-> <<"A","A","P","L">>],
       [company |-> <<"m","i","c","r","o","s","o","f","t">>,
        ticker |-> <<"M","S","F","T">>],
       [company |-> <<"g","o","o","g","l","e">>,
        ticker |-> <<"G","O","O","G","L">>],
       [company |-> <<"a","m","a","z","o","n">>,
        ticker |-> <<"A","M","Z","N">>],
       [company |-> <<"t","e","s","l","a">>,
        ticker |-> <<"T","S","L","A">>],
       [company |-> <<"f","a","c","e","b","o","o","k">>,
        ticker |-> <<"M","E","T","A">>],
       [company |-> <<"n","e","t","f","l","i","x">>,
        ticker |-> <<"N","F","L","X">>] >>

\* custom_tool.py line 136.
DEFAULT_TICKER == <<"A","A","P","L">>

\* Words the tasks given to the tools are made of.
Vocabulary ==
    { <<"M","S","F","T">>,
       <<"T","e","s","l","a">>,
       <<"I","B","M","?">>,
       <<"o","f">>,
       <<"R","a","i","n">>,
       <<"I","s">>,
       <<"t","h","i","s">>,
       <<"o","k","?">>,
       <<"C","h","e","c","k">>,
       <<"F","A","Q">>,
       <<"s","t","o","c","k">> }

\* The tasks of n words, joined by single spaces.
RECURSIVE TasksOfWords(_)
TasksOfWords(n) ==
    IF n = 0 THEN {<<>>}
    ELSE IF n = 1 THEN Vocabulary
    ELSE {t \o <<" ">> \o w : t \in TasksOfWords(n - 1), w \in Vocabulary}

\* The tasks of at most MaxWords words.
Tasks == UNION {TasksOfWords(n) : n \in 0..MaxWords}

\* WeatherTool.can_handle, custom_tool.py lines 21-24.
WeatherCanHandleOf(task) == AnyKeywordIn(WeatherKeywords, Lower(task))

\* StockPriceTool.can_handle, custom_tool.py lines 87-90.
StockCanHandleOf(task) == AnyKeywordIn(StockKeywords, Lower(task))

\* ValidatedTool.can_handle for a str task, best_practices.py lines 113-115.
ValidatedCanHandleOf(task) == AnyKeywordIn(ValidatedKeywords, Lower(task))

\* FAQTool.can_handle, customer_support.py lines 21-44.
FAQCanHandleOf(task) ==
    LET task_lower == Lower(task)
    IN  IF \E i \in DOMAIN QuestionIndicators :
             StartsWith(task_lower, QuestionIndicators[i])
        THEN TRUE
        ELSE IF EndsWith(task_lower, <<"?">>)
        THEN TRUE
        ELSE IF AnyKeywordIn(FaqKeywords, task_lower)
        THEN TRUE
        ELSE FALSE

\* StockPriceTool._extract_ticker, custom_tool.py lines 109-136.
ExtractTicker(task) ==
    LET task_lower == Lower(task)
        found == {i \in DOMAIN CommonTickers :
                    IsSubstring(CommonTickers[i].company, task_lower)}
        words == Split(task_lower)
        stripped == [i \in DOMAIN words |-> StripChars(words[i], Punctuation)]
        caps == {i \in DOMAIN stripped :
                   /\ IsUpperStr(stripped[i])
                   /\ 1 <= Len(stripped[i])
                   /\ Len(stripped[i]) <= 5}
    IN  IF found # {}
        THEN CommonTickers[CHOOSE i \in found : \A j \in found : i <= j].ticker
        ELSE IF caps # {}
        THEN stripped[CHOOSE i \in caps : \A j \in caps : i <= j]
        ELSE DEFAULT_TICKER

\* A can_handle that calls task.lower() first: a task that is no str has no
\* lower and the call raises AttributeError.
CanHandleCall(name, result) ==
    /\ script = "tools"
    /\ tl_op = "none"
    /\ tl_op' = name
    /\ IF tl_isstr
       THEN tl_can' = result /\ UNCHANGED tl_raised
       ELSE tl_raised' = TRUE /\ UNCHANGED tl_can
    /\ UNCHANGED <<script, cliVars, wsVars, env, appVars, orchVars, memVars,
                   caVars, saVars, muVars, asVars, baVars, tl_task,
                   tl_isstr, tl_ticker>>

\* WeatherTool.can_handle(task)
WeatherCanHandle ==
    CanHandleCall("WeatherTool.can_handle", WeatherCanHandleOf(tl_task))

\* StockPriceTool.can_handle(task)
StockCanHandle ==
    CanHandleCall("StockPriceTool.can_handle", StockCanHandleOf(tl_task))

\* FAQTool.can_handle(task)
FAQCanHandle ==
    CanHandleCall("FAQTool.can_handle", FAQCanHandleOf(tl_task))

\* ValidatedTool.can_handle(task): lines 110-111 return False for a task
\* that is no str.
ValidatedCanHandle ==
    /\ script = "tools"
    /\ tl_op = "none"
    /\ tl_op' = "ValidatedTool.can_handle"
    /\ tl_can' = IF tl_isstr THEN ValidatedCanHandleOf(tl_task) ELSE FALSE
    /\ UNCHANGED <<script, cliVars, wsVars, env, appVars, orchVars, memVars,
                   caVars, saVars, muVars, asVars, baVars, tl_task,
                   tl_isstr, tl_raised, tl_ticker>>

\* StockPriceTool._extract_ticker(task)
StockExtractTicker ==
    /\ script = "tools"
    /\ tl_op = "none"
    /\ tl_op' = "StockPriceTool._extract_ticker"
    /\ IF tl_isstr
       THEN tl_ticker' = ExtractTicker(tl_task) /\ UNCHANGED tl_raised
       ELSE tl_raised' = TRUE /\ UNCHANGED tl_ticker
    /\ UNCHANGED <<script, cliVars, wsVars, env, appVars, orchVars, memVars,
                   caVars, saVars, muVars, asVars, baVars, tl_task,
                   tl_isstr, tl_can>>

ToolNext ==
    \/ WeatherCanHandle
    \/ StockCanHandle
    \/ FAQCanHandle
    \/ ValidatedCanHandle
    \/ StockExtractTicker

ToolInit ==
    /\ tl_op = "none"
    /\ tl_can = FALSE
    /\ tl_raised = FALSE
    /\ tl_ticker = <<>>
    /\ IF script = "tools"
       THEN \/ tl_task \in Tasks /\ tl_isstr = TRUE
            \/ tl_task = <<>> /\ tl_isstr = FALSE
       ELSE tl_task = <<>> /\ tl_isstr = TRUE

----------------------------------------------------------------------------

Scripts == {"cli_app", "web_server", "web_app_template",
            "advanced_integration_template", "component_usage",
            "custom_agent_template", "memory_usage", "advanced_system",
            "basic_agent_template", "tools"}

Init ==
    /\ script \in Scripts
    /\ CliInit
    /\ WsInit
    /\ AppInit
    /\ EnvInit
    /\ OrchInit
    /\ MemInit
    /\ CaInit
    /\ SaInit
    /\ MuInit
    /\ AsInit
    /\ BaInit
    /\ ToolInit

Next ==
    \/ CliNext
    \/ WsNext
    \/ AppNext
    \/ OrchNext
    \/ MemNext
    \/ CaNext
    \/ SaNext
    \/ MuNext
    \/ AsNext
    \/ BaNext
    \/ ToolNext

Spec == Init /\ [][Next]_vars

----------------------------------------------------------------------------
(* Claims about examples/cli_app.py *)

Max(S) == CHOOSE x \in S : \A y \in S : y <= x

\* Positions in cli_inputs of the lines that were forwarded to the agent.
ForwardedAt == {cli_calls[k].at : k \in DOMAIN cli_calls}

\* The tool pending when the line at position i is read: the stripped name of
\* the latest 'tool <name>' command read since the last forwarded line, None
\* when there is none.
PendingToolAt(i) ==
    LET prevQ == Max({0} \cup {j \in ForwardedAt : j < i})
        toolCmds == {j \in (prevQ + 1)..(i - 1) : IsToolCmd(cli_inputs[j])}
    IN  IF toolCmds = {} THEN None
        ELSE Strip(SliceFrom(cli_inputs[Max(toolCmds)], 5))

\* C1: the name given by a 'tool <name>' command (the pending tool; a later
\* 'tool' command replaces it) is passed as tool_name to exactly the next line
\* forwarded to the agent, whatever session, provider or model commands come
\* in between; after that query, returned or raised, the pending tool is
\* cleared, and every other query is forwarded with tool_name None.
C1_ToolAppliesToNextQueryOnly ==
    /\ \A k \in DOMAIN cli_calls :
         cli_calls[k].tool_name = PendingToolAt(cli_calls[k].at)
    /\ cli_pc = "prompt" => next_tool = PendingToolAt(Len(cli_inputs) + 1)

\* 'tool t', an intervening command, then a query that raised: the query
\* carried the tool and the pending tool is cleared again.
C1_Witness ==
    /\ cli_pc = "prompt"
    /\ next_tool = None
    /\ \E k \in DOMAIN cli_calls :
         /\ cli_calls[k].tool_name = <<"t">>
         /\ cli_calls[k].outcome = "raised"
         /\ cli_calls[k].at = 3
         /\ IsToolCmd(cli_inputs[1])
         /\ ~IsToolCmd(cli_inputs[2])

\* C2: a query entered before any 'session' command is forwarded with
\* session_id 'interactive_session'; after 'session <name>' with a non-empty
\* name every query is forwarded with the stripped name, until another
\* 'session' command is entered.
C2_SessionIdOfQueries ==
    \A k \in DOMAIN cli_calls :
      LET i == cli_calls[k].at
          sessionCmds == {j \in 1..(i - 1) : IsSessionCmd(cli_inputs[j])}
      IN  IF sessionCmds = {}
          THEN cli_calls[k].session_id = INTERACTIVE_SESSION
          ELSE LET name == Strip(SliceFrom(cli_inputs[Max(sessionCmds)], 8))
               IN  name # <<>> => cli_calls[k].session_id = name

\* A query under the default session, then 'Session  B ', then a query that is
\* forwarded with session_id 'B'.
C2_Witness ==
    /\ Len(cli_calls) = 2
    /\ cli_calls[1].session_id = INTERACTIVE_SESSION
    /\ cli_calls[2].session_id = <<"B">>
    /\ cli_calls[2].at = 3

\* C3: the loop is left when the line equals 'exit' or 'quit' in any letter
\* case, and that line is not forwarded to the agent; no outcome of a query
\* makes interactive_mode leave the loop.
C3_ExitLeavesLoopQueriesDoNot ==
    /\ \A i \in 1..Len(cli_inputs) :
         Lower(cli_inputs[i]) \in {EXIT_WORD, QUIT_WORD}
           => /\ i = Len(cli_inputs)
              /\ cli_pc = "done"
              /\ i \notin ForwardedAt
    /\ Len(cli_inputs) \in ForwardedAt => cli_pc = "prompt"

\* A query that raised, a query whose result could not be printed, then
\* 'QUIT' in capitals ends the loop.
C3_Witness ==
    /\ cli_pc = "done"
    /\ Len(cli_inputs) = 3
    /\ cli_inputs[3] = <<"Q","U","I","T">>
    /\ Len(cli_calls) = 2
    /\ cli_calls[1].outcome = "raised"
    /\ cli_calls[2].outcome = "returned_nonstr"

----------------------------------------------------------------------------
(* Claims about examples/web_server.py *)

HasQuery(e) == e.body.json = "object" /\ "query" \in DOMAIN e.body.obj

\* The arguments the claim expects for the forwarded call.
ExpectedSessionId(e) ==
    IF "session_id" \in DOMAIN e.body.obj
    THEN e.body.obj["session_id"] ELSE DEFAULT_SESSION

ExpectedToolName(e) ==
    IF "tool_name" \in DOMAIN e.body.obj THEN e.body.obj["tool_name"] ELSE None

ForwardsOnce(e) ==
    /\ Len(e.calls) = 1
    /\ e.calls[1].query = e.body.obj["query"]
    /\ e.calls[1].session_id = ExpectedSessionId(e)
    /\ e.calls[1].tool_name = ExpectedToolName(e)
    /\ e.calls[1].outcome.kind = "returned"
         => e.resp = [status |-> 200,
                      payload |-> [response |-> e.calls[1].outcome.value,
                                   session_id |-> ExpectedSessionId(e)]]

\* C4 as stated: every POST /api/query whose body contains 'query' makes the
\* handler call agent.process_query exactly once with the query, the body's
\* session_id or 'default_session', and the body's tool_name or None, and on
\* normal return the response is the result with the same session_id.
C4_Original ==
    \A i \in DOMAIN ws_log : HasQuery(ws_log[i]) => ForwardsOnce(ws_log[i])

\* C4 amended: the same, provided the global agent has been initialised; while
\* the agent is still None the handler makes no call and answers 500.
C4_ForwardsOnceWhenInitialised ==
    \A i \in DOMAIN ws_log :
      LET e == ws_log[i] IN
      HasQuery(e) =>
        IF e.agent # None THEN ForwardsOnce(e)
        ELSE e.calls = <<>> /\ e.resp.status = 500

\* A body with query, session_id and tool_name was forwarded and answered
\* with 200, and a body with only a query was forwarded to the default session.
C4_Witness ==
    /\ Len(ws_log) = 2
    /\ DOMAIN ws_log[1].body.obj = {"query", "session_id", "tool_name"}
    /\ ws_log[1].resp.status = 200
    /\ ws_log[1].calls[1].session_id = <<"s">>
    /\ ws_log[1].calls[1].tool_name = <<"t">>
    /\ DOMAIN ws_log[2].body.obj = {"query"}
    /\ Len(ws_log[2].calls) = 1
    /\ ws_log[2].calls[1].session_id = DEFAULT_SESSION
    /\ ws_log[2].calls[1].tool_name = None

----------------------------------------------------------------------------
(* Claims about templates/web_app_template.py *)

Min(S) == CHOOSE x \in S : \A y \in S : x <= y

\* The chat requests whose message is non-empty after strip().
NonEmptyChat(e) ==
    e.op = "chat" /\ e.body.json = "object" /\ Strip(e.body.message) # <<>>

\* C6: the session id assigned on the client's first non-empty chat message is
\* the session_id of every later chat call, also after a chat whose agent
\* invocation failed, until clear-session is called; the first chat after
\* clear-session is forwarded with a newly generated session id.
C6_SessionIdStableUntilClear ==
    \A i \in DOMAIN app_log :
      LET e == app_log[i]
          lastClear == Max({0} \cup {j \in 1..(i - 1) : app_log[j].op = "clear"})
          earlier == {j \in (lastClear + 1)..(i - 1) : NonEmptyChat(app_log[j])}
      IN  NonEmptyChat(e) =>
            /\ IF earlier = {}
               THEN e.generated # None /\ e.sid = e.generated
               ELSE e.generated = None /\ e.sid = app_log[Min(earlier)].generated
            /\ e.call_sid # None => e.call_sid = e.sid

\* A first chat whose agent call failed, a second chat forwarded with the same
\* id, clear-session, and a chat forwarded with an id generated for it.
C6_Witness ==
    /\ Len(app_log) = 4
    /\ NonEmptyChat(app_log[1])
    /\ app_log[1].status = 500
    /\ app_log[1].call_sid # None
    /\ NonEmptyChat(app_log[2])
    /\ app_log[2].status = 200
    /\ app_log[2].call_sid = app_log[1].generated
    /\ app_log[3].op = "clear"
    /\ NonEmptyChat(app_log[4])
    /\ app_log[4].call_sid = app_log[4].generated
    /\ app_log[4].status = 200

\* C9: main uses the global agent (get_agent_identity, app.run) only after
\* initialize_agent returned True and the agent is not None; when no LLM key
\* passes check_api_keys it does not go on to use the agent.
C9_AgentUsedOnlyAfterInit ==
    \A i \in DOMAIN app_uses :
      app_uses[i].init_result = "True" /\ app_uses[i].agent # None

----------------------------------------------------------------------------
(* Claims about templates/advanced_integration_template.py *)

ExpectedOrder == <<"data_analyst", "code_generator", "report_writer">>

\* The event sequences of the parallel workflows: the finished ones and the
\* running one.
FinishedParallel ==
    {workflow_history[i].events : i \in
       {j \in DOMAIN workflow_history : workflow_history[j].type = "parallel"}}

RunningParallel ==
    IF orch_pc \in {"next_agent", "in_call"} /\ orch_type = "parallel"
    THEN {orch_events} ELSE {}

IsCall(x) == x[1] = "call"

\* The agents called, in call order.
CalledAgents(ev) ==
    LET calls == SelectSeq(ev, IsCall)
    IN  [i \in 1..Len(calls) |-> calls[i][2]]

IsPrefix(a, b) == Len(a) <= Len(b) /\ a = SubSeq(b, 1, Len(a))

\* Every call but the first starts right after the previous call returned.
OneAfterAnother(ev) ==
    \A p \in DOMAIN ev :
      IsCall(ev[p]) => (p = 1 \/ ev[p - 1][1] = "ret")

----------------------------------------------------------------------------
(* Claim about failed library calls: examples/cli_app.py,                  *)
(* examples/web_server.py, examples/component_usage.py                     *)

\* A failed agent.process_query is only reported: the line (the request) it
\* was made for gets no second call, the loop goes on (the response is the
\* 500 error value).
AgentCallsNotRetried ==
    /\ \A j, k \in DOMAIN cli_calls : cli_calls[j].at = cli_calls[k].at => j = k
    /\ \A k \in DOMAIN cli_calls :
         cli_calls[k].outcome = "raised" /\ cli_calls[k].at = Len(cli_inputs)
           => cli_pc = "prompt"
    /\ \A i \in DOMAIN ws_log :
         /\ Len(ws_log[i].calls) <= 1
         /\ (ws_log[i].calls # <<>> /\ ws_log[i].calls[1].outcome.kind = "raised")
              => ws_log[i].resp.status = 500

----------------------------------------------------------------------------
(* Claim about templates/custom_agent_template.py *)

\* C10: main proceeds to the demonstrations whenever at least one of
\* GROQ_API_KEY, OPENAI_API_KEY, ANTHROPIC_API_KEY is set, and exits with
\* status 1 only when none of the three is set.
C10_ProceedsWithAnyKey ==
    ca_pc # 0 =>
      /\ (\E k \in {"GROQ_API_KEY", "OPENAI_API_KEY", "ANTHROPIC_API_KEY"} :
            env[k] # None) => ca_proceeded
      /\ ca_exit_status = 1 =>
           \A k \in {"GROQ_API_KEY", "OPENAI_API_KEY", "ANTHROPIC_API_KEY"} :
             env[k] = None

----------------------------------------------------------------------------
(* Claim about demonstrate_specialized_agents *)

\* The process_query calls received by the agent stored under a role.
CallsOfRole(role) == {k \in DOMAIN sa_calls : sa_calls[k].role = role}

\* C11: when demonstrate_specialized_agents has returned, every agent of the
\* dictionary returned by create_specialized_agents has received exactly one
\* process_query call.
C11_EachAgentQueriedOnce ==
    sa_pc = "done" =>
      \A i \in DOMAIN sa_agents :
        Cardinality(CallsOfRole(sa_agents[i].role)) = 1

----------------------------------------------------------------------------
(* Claim about examples/memory_usage.py and examples/advanced_system.py *)

\* C12: without GROQ_API_KEY both scripts go on in mock mode: once
\* memory_usage.main has printed its warning and ended, the memory
\* demonstrations have been run, and once demonstrate_integrated_system has
\* printed its warning and ended, the integrated agent steps have been run.
C12_MockModeContinues ==
    /\ (mu_warned /\ mu_pc = "returned")
         => mu_steps = MemoryDemonstrations
    /\ (as_warned /\ as_pc = "returned")
         => /\ as_steps # <<>>
            /\ IsPrefix(as_steps, IntegratedSteps)

----------------------------------------------------------------------------
(* Claim about templates/basic_agent_template.py *)

\* The provider a model name belongs to (the models named in
\* create_basic_agent and, for huggingface, in the templates' model tables).
ProviderOfModel(m) ==
    IF m = "llama-3.1-8b-instant" THEN "groq"
    ELSE IF m = "gpt-4o-mini" THEN "openai"
    ELSE IF m = "claude-3-haiku-20240307" THEN "anthropic"
    ELSE IF m = "mistralai/Mixtral-8x7B-Instruct-v0.1" THEN "huggingface"
    ELSE "unknown"

\* C13: for each documented value of llm_provider, when create_basic_agent
\* has constructed the agent, set_llm_provider was called with that provider
\* and set_llm_model with a model of that provider before SingleAgent(...).
C13_RequestedProviderConfigured ==
    (ba_pc = "returned" /\ ba_provider \in DocumentedProviders) =>
      \E i, j, k \in DOMAIN ba_calls :
        /\ i < k /\ j < k
        /\ ba_calls[i] = [op |-> "set_llm_provider", arg |-> ba_provider]
        /\ ba_calls[j].op = "set_llm_model"
        /\ ProviderOfModel(ba_calls[j].arg) = ba_provider
        /\ ba_calls[k].op = "SingleAgent"

----------------------------------------------------------------------------
(* Claims about the custom tools *)

\* The company names of common_tickers that occur in the lower-cased task.
CompaniesNamed(task) ==
    {i \in DOMAIN CommonTickers :
       \E k \in 0..(Len(task) - Len(CommonTickers[i].company)) :
         SubSeq(Lower(task), k + 1, k + Len(CommonTickers[i].company))
           = CommonTickers[i].company}

\* A ticker symbol: 1 to 5 letters, all capitals.
IsTickerSymbol(w) ==
    /\ Len(w) \in 1..5
    /\ \A i \in DOMAIN w : \E j \in DOMAIN UpperAlpha : w[i] = UpperAlpha[j]

\* The words of the task that are ticker symbols once the punctuation
\* around them is stripped.
TickerWords(task) ==
    {w \in {StripChars(Split(task)[i], Punctuation) : i \in DOMAIN Split(task)} :
       IsTickerSymbol(w)}

\* C14: _extract_ticker returns the ticker of a known company named in the
\* task; otherwise a word of the task that is all capitals and 1 to 5
\* letters long after stripping punctuation; and 'AAPL' by default only when
\* the task has neither.
C14_ExtractsNamedTicker ==
    (tl_op = "StockPriceTool._extract_ticker" /\ tl_isstr) =>
      IF CompaniesNamed(tl_task) # {}
      THEN \E i \in CompaniesNamed(tl_task) :
             tl_ticker = CommonTickers[i].ticker
      ELSE IF TickerWords(tl_task) # {}
      THEN tl_ticker \in TickerWords(tl_task)
      ELSE tl_ticker = DEFAULT_TICKER

\* The method names of the can_handle predicates.
CanHandleOps == {"WeatherTool.can_handle", "StockPriceTool.can_handle",
                 "FAQTool.can_handle", "ValidatedTool.can_handle"}

\* The fixed keyword list of the tool a can_handle belongs to.
KeywordsOf(op) ==
    IF op = "WeatherTool.can_handle" THEN WeatherKeywords
    ELSE IF op = "StockPriceTool.can_handle" THEN StockKeywords
    ELSE IF op = "ValidatedTool.can_handle" THEN ValidatedKeywords
    ELSE FaqKeywords

\* The lower-cased task contains at least one string of the list.
ContainsKeyword(task, keywords) ==
    \E i \in DOMAIN keywords : IsSubstring(keywords[i], Lower(task))

\* The lower-cased task starts with a question word or ends with "?".
LooksLikeQuestion(task) ==
    \/ \E i \in DOMAIN QuestionIndicators :
         StartsWith(Lower(task), QuestionIndicators[i])
    \/ Len(task) > 0 /\ task[Len(task)] = "?"

====
